---- MODULE Spec2Model ----
(***************************************************************************)
(* Model of the S3 presigned-upload example: the AwsBucketApi adapter      *)
(* (app/lib.py) and the three Flask routes that use it (app/main.py).      *)
(*                                                                         *)
(* Strings the program inspects (object keys, prefixes, URLs) are          *)
(* sequences of symbols; a literal the program passes through untouched    *)
(* (the endpoint, the bucket name, a signature) is a single symbol.        *)
(* Python values that may be None are tagged records (None, Str(s), True). *)
(* Python dicts are functions from field names; d.get(k) is Get(d, k).     *)
(***************************************************************************)
EXTENDS Integers, Sequences, FiniteSets, TLC

VARIABLES
    bucket,       \* the provider's state: the set of keys stored in the bucket
    versioned,    \* the provider's bucket setting: versioning enabled or not
    bucket_name,  \* self.bucket_name of the one AwsBucketApi instance
    last,         \* the most recent call or request and what it produced
    deleted       \* history: keys deleted successfully and not uploaded since

vars == <<bucket, versioned, bucket_name, last, deleted>>

------------------------------------------------------------------------------
(* Bounds of the model *)

\* The provider's page limit of one list_objects response (1000 at S3),
\* scaled down so that a truncated listing is reachable.
MaxKeys == 2

------------------------------------------------------------------------------
(* Python values *)

None == [type |-> "NoneType"]
Str(s) == [type |-> "str", value |-> s]
True == [type |-> "bool", value |-> TRUE]
False == [type |-> "bool", value |-> FALSE]
List(s) == [type |-> "list", value |-> s]

EmptyDict == [x \in {} |-> x]

\* dict.get(k): the value under k, or None when k is absent
Get(d, k) == IF k \in DOMAIN d THEN d[k] ELSE None

------------------------------------------------------------------------------
(* Strings *)

userpath == <<"u", "s", "e", "r", "1", "/">>

\* the "${filename}" of the upload key template
Placeholder == <<"$", "{", "f", "i", "l", "e", "n", "a", "m", "e", "}">>

\* The keys the bucket may hold: three under userpath (one of them holding a
\* character that a URL must escape) and one of another user.
Keys ==
    { userpath \o <<"a">>,
      userpath \o <<"a", " ", "b">>,
      userpath \o <<"b">>,
      <<"u", "s", "e", "r", "2", "/", "a">> }

\* The prefixes the adapter is called with.
Prefixes == { <<>>, userpath, <<"u", "s", "e", "r", "2", "/">>, <<"x">> }

StartsWith(s, p) == Len(p) <= Len(s) /\ SubSeq(s, 1, Len(p)) = p

\* The symbols of the keys in ASCII order (the provider lists keys in
\* UTF-8 binary order).
Alphabet == <<" ", "/", "1", "2", "a", "b", "e", "r", "s", "u">>

Ord(c) == CHOOSE i \in 1..Len(Alphabet) : Alphabet[i] = c

LexLess(a, b) ==
    \E i \in 1..(Len(a) + 1) :
        /\ i <= Len(b)
        /\ \A j \in 1..(i - 1) : a[j] = b[j]
        /\ i > Len(a) \/ Ord(a[i]) < Ord(b[i])

\* the keys of S as the provider lists them
SortedKeys(S) ==
    [i \in 1..Cardinality(S) |->
        CHOOSE k \in S : Cardinality({x \in S : LexLess(x, k)}) = i - 1]

------------------------------------------------------------------------------
(* The storage provider's SDK client (self.bucket), as the adapter uses it *)

Endpoint == "https://s3.us-east-2.amazonaws.com"

\* the default lifetime of a presigned URL or policy, in seconds
expires == 3600

\* Percent-encoding of a key in a URL path: the symbols of Unreserved stay,
\* any other symbol becomes its escape.
Unreserved == {"/", "1", "2", "a", "b", "e", "r", "s", "u"}

\* the space is the one symbol of Alphabet that is escaped
Escape(c) == <<"%", "2", "0">>

RECURSIVE UrlQuote(_)
UrlQuote(s) ==
    IF s = <<>> THEN <<>>
    ELSE (IF Head(s) \in Unreserved THEN <<Head(s)>> ELSE Escape(Head(s)))
         \o UrlQuote(Tail(s))

\* The SDK validates its parameters before it sends anything: a key must be
\* a string of at least one symbol.
ValidKey(k) == k.type = "str" /\ Len(k.value) >= 1

\* S3.Client.generate_presigned_url("get_object", Bucket, Key): a path-style
\* URL of the object, followed by the signed query.
s3_generate_presigned_url(Bucket, Key) ==
    <<Endpoint, "/", Bucket, "/">> \o UrlQuote(Key)
        \o <<"?", "X-Amz-Expires", "&", "X-Amz-Signature">>

\* S3.Client.generate_presigned_post(Bucket, Key, Fields, Conditions): the
\* form's target and fields; a key that ends in the placeholder adds a
\* starts-with condition on what precedes it.
s3_generate_presigned_post(Bucket, Key, Fields, Conditions) ==
    LET stem == SubSeq(Key, 1, Len(Key) - Len(Placeholder))
        conditions ==
            Conditions \o <<<<"bucket", Bucket>>, <<"starts-with", "$key", stem>>>>
    IN  [url |-> <<Endpoint, "/", Bucket>>,
         fields |-> Fields @@ [key |-> Key,
                               policy |-> conditions,
                               signature |-> "x-amz-signature"]]

\* S3.Client.list_objects(Bucket, Prefix) on bucket contents b: one page of
\* at most MaxKeys keys that start with Prefix, in the provider's order; the
\* response has no Contents when no key matches.
s3_list_objects(Bucket, Prefix, b) ==
    LET matching == SortedKeys({k \in b : StartsWith(k, Prefix)})
        n == IF Len(matching) > MaxKeys THEN MaxKeys ELSE Len(matching)
        head == [Name |-> Bucket, Prefix |-> Prefix, MaxKeys |-> MaxKeys,
                 IsTruncated |-> Len(matching) > MaxKeys]
    IN  IF n = 0 THEN head
        ELSE head @@ [Contents |-> [i \in 1..n |-> [Key |-> matching[i]]]]

\* S3.Client.delete_object(Bucket, Key): the response reports a delete
\* marker on a versioned bucket and nothing otherwise, whether or not the
\* key was there.
s3_delete_object(Bucket, Key, v) ==
    IF v THEN [DeleteMarker |-> True, VersionId |-> Str("null")] ELSE EmptyDict

\* what delete_object leaves in the bucket
s3_after_delete(b, Key) == b \ {Key}

------------------------------------------------------------------------------
(* Outcomes of a call: it returned a value or raised an error; calls are the
   SDK calls it issued, in order; bucket is what it left in the bucket. *)

Returned(calls, value, b) ==
    [raised |-> FALSE, calls |-> calls, value |-> value, bucket |-> b]

Raised(calls, error, b) ==
    [raised |-> TRUE, calls |-> calls, error |-> error, bucket |-> b]

\* A fault makes the at-th SDK call of a request raise error; NoFault makes
\* none raise.
Errors == {"EndpointConnectionError", "ClientError"}

NoFault == [at |-> 0, error |-> "none"]

\* the fault as the calls after the first n see it
Shift(fault, n) == [fault EXCEPT !.at = IF @ > n THEN @ - n ELSE 0]

------------------------------------------------------------------------------
(* AwsBucketApi *)

generate_presigned_url(filename, b, fault) ==
    LET call == [method |-> "generate_presigned_url", Bucket |-> bucket_name,
                 Key |-> filename, ExpiresIn |-> expires]
    IN  IF ~ValidKey(Str(filename))
        THEN Raised(<<call>>, "ParamValidationError", b)
        ELSE IF fault.at = 1
        THEN Raised(<<call>>, fault.error, b)
        ELSE Returned(<<call>>, s3_generate_presigned_url(bucket_name, filename), b)

\* generate_presigned_post_fields whose content-type branch leaves out the
\* prefix
generate_presigned_post_fields_no_prefix(content_type, path_prefix, b, fault) ==
    LET key == path_prefix \o Placeholder
        call == [method |-> "generate_presigned_post", Bucket |-> bucket_name,
                 Key |-> key, ExpiresIn |-> expires]
    IN  IF fault.at = 1
        THEN Raised(<<call>>, fault.error, b)
        ELSE IF content_type.type = "str" /\ content_type.value # ""
        THEN Returned(<<call>>,
                 s3_generate_presigned_post(bucket_name, Placeholder,
                     [x \in {"Content-Type"} |-> content_type.value],
                     << <<"starts-with", "$Content-Type", "">> >>), b)
        ELSE Returned(<<call>>,
                 s3_generate_presigned_post(bucket_name, key, EmptyDict, <<>>), b)

generate_presigned_post_fields(content_type, path_prefix, b, fault) ==
    LET key == path_prefix \o Placeholder
        call == [method |-> "generate_presigned_post", Bucket |-> bucket_name,
                 Key |-> key, ExpiresIn |-> expires]
    IN  IF fault.at = 1
        THEN Raised(<<call>>, fault.error, b)
        ELSE IF content_type.type = "str" /\ content_type.value # ""
        THEN Returned(<<call>>,
                 s3_generate_presigned_post(bucket_name, key,
                     [x \in {"Content-Type"} |-> content_type.value],
                     << <<"starts-with", "$Content-Type", "">> >>), b)
        ELSE Returned(<<call>>,
                 s3_generate_presigned_post(bucket_name, key, EmptyDict, <<>>), b)

\* get_files with each filename cut down to what follows the prefix
get_files_basename(path_prefix, b, fault) ==
    LET call == [method |-> "list_objects", Bucket |-> bucket_name,
                 Prefix |-> path_prefix]
        object_list == s3_list_objects(bucket_name, path_prefix, b)
    IN  IF fault.at = 1
        THEN Raised(<<call>>, fault.error, b)
        ELSE IF "Contents" \notin DOMAIN object_list
        THEN Returned(<<call>>, <<>>, b)
        ELSE
            LET files == object_list["Contents"]
                url(i) == generate_presigned_url(files[i]["Key"], b, Shift(fault, i))
                failing == {i \in 1..Len(files) : url(i).raised}
                stop == CHOOSE i \in failing : \A j \in failing : i <= j
                name(i) == SubSeq(files[i]["Key"], Len(path_prefix) + 1,
                                  Len(files[i]["Key"]))
            IN  IF failing # {}
                THEN Raised(<<call>> \o [i \in 1..stop |-> url(i).calls[1]],
                            url(stop).error, b)
                ELSE Returned(
                        <<call>> \o [i \in 1..Len(files) |-> url(i).calls[1]],
                        [i \in 1..Len(files) |->
                            [url |-> url(i).value, filename |-> name(i)]],
                        b)

\* get_files with every entry given the URL of the first object
get_files_first_url(path_prefix, b, fault) ==
    LET call == [method |-> "list_objects", Bucket |-> bucket_name,
                 Prefix |-> path_prefix]
        object_list == s3_list_objects(bucket_name, path_prefix, b)
    IN  IF fault.at = 1
        THEN Raised(<<call>>, fault.error, b)
        ELSE IF "Contents" \notin DOMAIN object_list
        THEN Returned(<<call>>, <<>>, b)
        ELSE
            LET files == object_list["Contents"]
                url(i) == generate_presigned_url(files[1]["Key"], b, Shift(fault, i))
                failing == {i \in 1..Len(files) : url(i).raised}
                stop == CHOOSE i \in failing : \A j \in failing : i <= j
            IN  IF failing # {}
                THEN Raised(<<call>> \o [i \in 1..stop |-> url(i).calls[1]],
                            url(stop).error, b)
                ELSE Returned(
                        <<call>> \o [i \in 1..Len(files) |-> url(i).calls[1]],
                        [i \in 1..Len(files) |->
                            [url |-> url(i).value, filename |-> files[i]["Key"]]],
                        b)

\* get_files with a failed listing taken for an empty one
get_files_swallow(path_prefix, b, fault) ==
    LET call == [method |-> "list_objects", Bucket |-> bucket_name,
                 Prefix |-> path_prefix]
        object_list == s3_list_objects(bucket_name, path_prefix, b)
    IN  IF fault.at = 1
        THEN Returned(<<call>>, <<>>, b)
        ELSE IF "Contents" \notin DOMAIN object_list
        THEN Returned(<<call>>, <<>>, b)
        ELSE
            LET files == object_list["Contents"]
                url(i) == generate_presigned_url(files[i]["Key"], b, Shift(fault, i))
                failing == {i \in 1..Len(files) : url(i).raised}
                stop == CHOOSE i \in failing : \A j \in failing : i <= j
            IN  IF failing # {}
                THEN Raised(<<call>> \o [i \in 1..stop |-> url(i).calls[1]],
                            url(stop).error, b)
                ELSE Returned(
                        <<call>> \o [i \in 1..Len(files) |-> url(i).calls[1]],
                        [i \in 1..Len(files) |->
                            [url |-> url(i).value, filename |-> files[i]["Key"]]],
                        b)

\* get_files without the test for a response that has no Contents
get_files_unguarded(path_prefix, b, fault) ==
    LET call == [method |-> "list_objects", Bucket |-> bucket_name,
                 Prefix |-> path_prefix]
        object_list == s3_list_objects(bucket_name, path_prefix, b)
    IN  IF fault.at = 1
        THEN Raised(<<call>>, fault.error, b)
        ELSE IF "Contents" \notin DOMAIN object_list
        THEN Raised(<<call>>, "TypeError", b)
        ELSE
            LET files == object_list["Contents"]
                url(i) == generate_presigned_url(files[i]["Key"], b, Shift(fault, i))
                failing == {i \in 1..Len(files) : url(i).raised}
                stop == CHOOSE i \in failing : \A j \in failing : i <= j
            IN  IF failing # {}
                THEN Raised(<<call>> \o [i \in 1..stop |-> url(i).calls[1]],
                            url(stop).error, b)
                ELSE Returned(
                        <<call>> \o [i \in 1..Len(files) |-> url(i).calls[1]],
                        [i \in 1..Len(files) |->
                            [url |-> url(i).value, filename |-> files[i]["Key"]]],
                        b)

\* get_files that lists again after a truncated response and returns the
\* objects of both pages
get_files_all_pages(path_prefix, b, fault) ==
    LET call == [method |-> "list_objects", Bucket |-> bucket_name,
                 Prefix |-> path_prefix]
        object_list == s3_list_objects(bucket_name, path_prefix, b)
        all == SortedKeys({k \in b : StartsWith(k, path_prefix)})
    IN  IF fault.at = 1
        THEN Raised(<<call>>, fault.error, b)
        ELSE IF "Contents" \notin DOMAIN object_list
        THEN Returned(<<call>>, <<>>, b)
        ELSE
            LET files == IF object_list["IsTruncated"]
                         THEN [i \in 1..Len(all) |-> [Key |-> all[i]]]
                         ELSE object_list["Contents"]
                lists == IF object_list["IsTruncated"]
                         THEN <<call, call>> ELSE <<call>>
                url(i) == generate_presigned_url(files[i]["Key"], b, Shift(fault, i))
                failing == {i \in 1..Len(files) : url(i).raised}
                stop == CHOOSE i \in failing : \A j \in failing : i <= j
            IN  IF failing # {}
                THEN Raised(lists \o [i \in 1..stop |-> url(i).calls[1]],
                            url(stop).error, b)
                ELSE Returned(
                        lists \o [i \in 1..Len(files) |-> url(i).calls[1]],
                        [i \in 1..Len(files) |->
                            [url |-> url(i).value, filename |-> files[i]["Key"]]],
                        b)

get_files(path_prefix, b, fault) ==
    LET call == [method |-> "list_objects", Bucket |-> bucket_name,
                 Prefix |-> path_prefix]
        object_list == s3_list_objects(bucket_name, path_prefix, b)
    IN  IF fault.at = 1
        THEN Raised(<<call>>, fault.error, b)
        ELSE IF "Contents" \notin DOMAIN object_list
        THEN Returned(<<call>>, <<>>, b)
        ELSE
            LET files == object_list["Contents"]
                \* the i-th call of generate_presigned_url is SDK call i + 1
                url(i) == generate_presigned_url(files[i]["Key"], b, Shift(fault, i))
                failing == {i \in 1..Len(files) : url(i).raised}
                stop == CHOOSE i \in failing : \A j \in failing : i <= j
            IN  IF failing # {}
                THEN Raised(<<call>> \o [i \in 1..stop |-> url(i).calls[1]],
                            url(stop).error, b)
                ELSE Returned(
                        <<call>> \o [i \in 1..Len(files) |-> url(i).calls[1]],
                        [i \in 1..Len(files) |->
                            [url |-> url(i).value, filename |-> files[i]["Key"]]],
                        b)

\* delete_file with the object left in the bucket
delete_file_keeps_object(filename, b, v, fault) ==
    LET call == [method |-> "delete_object", Bucket |-> bucket_name,
                 Key |-> filename]
    IN  IF ~ValidKey(filename)
        THEN Raised(<<call>>, "ParamValidationError", b)
        ELSE IF fault.at = 1
        THEN Raised(<<call>>, fault.error, b)
        ELSE LET response == s3_delete_object(bucket_name, filename.value, v)
             IN  Returned(<<call>>, Get(response, "DeleteMarker"), b)

\* delete_file that answers whether the object was there
delete_file_existed(filename, b, v, fault) ==
    LET call == [method |-> "delete_object", Bucket |-> bucket_name,
                 Key |-> filename]
    IN  IF ~ValidKey(filename)
        THEN Raised(<<call>>, "ParamValidationError", b)
        ELSE IF fault.at = 1
        THEN Raised(<<call>>, fault.error, b)
        ELSE Returned(<<call>>, IF filename.value \in b THEN True ELSE False,
                      s3_after_delete(b, filename.value))

\* delete_file that deletes every object whose key starts with filename
delete_file_by_prefix(filename, b, v, fault) ==
    LET call == [method |-> "delete_object", Bucket |-> bucket_name,
                 Key |-> filename]
    IN  IF ~ValidKey(filename)
        THEN Raised(<<call>>, "ParamValidationError", b)
        ELSE IF fault.at = 1
        THEN Raised(<<call>>, fault.error, b)
        ELSE LET response == s3_delete_object(bucket_name, filename.value, v)
             IN  Returned(<<call>>, Get(response, "DeleteMarker"),
                          {k \in b : ~StartsWith(k, filename.value)})

delete_file(filename, b, v, fault) ==
    LET call == [method |-> "delete_object", Bucket |-> bucket_name,
                 Key |-> filename]
    IN  IF ~ValidKey(filename)
        THEN Raised(<<call>>, "ParamValidationError", b)
        ELSE IF fault.at = 1
        THEN Raised(<<call>>, fault.error, b)
        ELSE LET response == s3_delete_object(bucket_name, filename.value, v)
             IN  Returned(<<call>>, Get(response, "DeleteMarker"),
                          s3_after_delete(b, filename.value))

------------------------------------------------------------------------------
(* The HTTP layer *)

\* flask.jsonify of what the adapter returns: None and a bool become the
\* JSON literals, a list of dicts becomes the array of its objects.
jsonify(value) ==
    IF value.type = "NoneType" THEN "null"
    ELSE IF value.type = "bool"
    THEN (IF value.value THEN "true" ELSE "false")
    ELSE value.value

\* render_template("index.html", data): the upload form of the page, posting
\* the policy's fields to the policy's url.
render_template(data) ==
    [form |-> [action |-> data["post_fields"]["url"],
               inputs |-> data["post_fields"]["fields"]]]

\* An exception that leaves a view becomes a 500 response; a returned value
\* becomes a 200 response with that body.
Response(out, body) ==
    IF out.raised THEN [status |-> 500] ELSE [status |-> 200, body |-> body]

\* what is recorded of a request to a route: the request, the bucket before
\* it, the outcome of the adapter's operation and the HTTP response
Request(op, args, fault, out, body) ==
    [op |-> op, args |-> args, fault |-> fault, before |-> bucket, out |-> out,
     response |-> Response(out, body)]

\* what is recorded of a direct call of the adapter
Call(op, args, fault, out) ==
    [op |-> op, args |-> args, fault |-> fault, before |-> bucket, out |-> out]

------------------------------------------------------------------------------
(* Inputs *)

\* the faults of a request that issues at most n SDK calls
Faults(n) == {NoFault} \cup [at : 1..n, error : Errors]

\* file names a caller may pass: every key, and the empty string
Filenames == Keys \cup {<<>>}

\* the query strings of GET /delete-image, with and without filename
QueryArgs == {EmptyDict} \cup {[filename |-> Str(k)] : k \in Filenames}

ContentTypes == {None, Str(""), Str("image/jpg")}

\* RETURN-0: the settings file
settings ==
    [user_access_id |-> "id", user_secret |-> "secret",
     bucket_name |-> "presigned-test", bucket_region |-> "us-east-2"]

------------------------------------------------------------------------------
(* The state machine.  A request reads or changes the bucket in one SDK call
   only (list_objects or delete_object; signing is local to the client), so
   concurrent requests behave as their handlers run one after another, and
   each handler is one action. *)

Init ==
    /\ bucket \in SUBSET Keys
    /\ versioned \in BOOLEAN
    /\ bucket_name = settings["bucket_name"]
    /\ last = [op |-> "init", before |-> bucket]
    /\ deleted = {}

\* GET /
homepage ==
    \E fault \in Faults(1) :
        LET out == generate_presigned_post_fields(None, userpath, bucket, fault)
            body == IF out.raised THEN None
                    ELSE render_template([post_fields |-> out.value])
        IN  /\ last' = Request("GET /", EmptyDict, fault, out, body)
            /\ bucket' = out.bucket
            /\ UNCHANGED <<versioned, bucket_name, deleted>>

\* GET /get-images
get_images ==
    \E fault \in Faults(MaxKeys + 1) :
        LET out == get_files(userpath, bucket, fault)
            body == IF out.raised THEN None ELSE jsonify(List(out.value))
        IN  /\ last' = Request("GET /get-images", EmptyDict, fault, out, body)
            /\ bucket' = out.bucket
            /\ UNCHANGED <<versioned, bucket_name, deleted>>

\* the keys a delete that returned has just deleted
Deleted(filename, out) ==
    IF out.raised THEN {} ELSE {filename.value}

\* GET /delete-image
delete_image ==
    \E args \in QueryArgs, fault \in Faults(1) :
        LET filename == Get(args, "filename")
            out == delete_file(filename, bucket, versioned, fault)
            body == IF out.raised THEN None ELSE jsonify(out.value)
        IN  /\ last' = Request("GET /delete-image", args, fault, out, body)
            /\ bucket' = out.bucket
            /\ deleted' = deleted \cup Deleted(filename, out)
            /\ UNCHANGED <<versioned, bucket_name>>

\* direct calls of the adapter's four operations
Call_generate_presigned_url ==
    \E filename \in Filenames, fault \in Faults(1) :
        LET out == generate_presigned_url(filename, bucket, fault)
        IN  /\ last' = Call("generate_presigned_url", [filename |-> filename],
                            fault, out)
            /\ bucket' = out.bucket
            /\ UNCHANGED <<versioned, bucket_name, deleted>>

Call_generate_presigned_post_fields ==
    \E content_type \in ContentTypes, path_prefix \in Prefixes, fault \in Faults(1) :
        LET out == generate_presigned_post_fields(content_type, path_prefix,
                                                  bucket, fault)
        IN  /\ last' = Call("generate_presigned_post_fields",
                            [content_type |-> content_type,
                             path_prefix |-> path_prefix], fault, out)
            /\ bucket' = out.bucket
            /\ UNCHANGED <<versioned, bucket_name, deleted>>

Call_get_files ==
    \E path_prefix \in Prefixes, fault \in Faults(MaxKeys + 1) :
        LET out == get_files(path_prefix, bucket, fault)
        IN  /\ last' = Call("get_files", [path_prefix |-> path_prefix], fault, out)
            /\ bucket' = out.bucket
            /\ UNCHANGED <<versioned, bucket_name, deleted>>

Call_delete_file ==
    \E filename \in {None} \cup {Str(k) : k \in Filenames}, fault \in Faults(1) :
        LET out == delete_file(filename, bucket, versioned, fault)
        IN  /\ last' = Call("delete_file", [filename |-> filename], fault, out)
            /\ bucket' = out.bucket
            /\ deleted' = deleted \cup Deleted(filename, out)
            /\ UNCHANGED <<versioned, bucket_name>>

\* A browser posts the form of GET / to the provider: the object is stored
\* under a key that the policy admits, one that starts with userpath.
Upload ==
    \E k \in Keys :
        /\ StartsWith(k, userpath)
        /\ bucket' = bucket \cup {k}
        /\ deleted' = deleted \ {k}
        /\ last' = [op |-> "upload", args |-> [key |-> k], before |-> bucket]
        /\ UNCHANGED <<versioned, bucket_name>>

Next ==
    \/ homepage
    \/ get_images
    \/ delete_image
    \/ Call_generate_presigned_url
    \/ Call_generate_presigned_post_fields
    \/ Call_get_files
    \/ Call_delete_file
    \/ Upload

Spec == Init /\ [][Next]_vars

------------------------------------------------------------------------------
(* What the claims speak of *)

ListingReturned ==
    /\ last.op \in {"get_files", "GET /get-images"}
    /\ ~last.out.raised

\* the prefix of the listing: the caller's, or the route's fixed one
ListedPrefix ==
    IF last.op = "get_files" THEN last.args["path_prefix"] ELSE userpath

\* the entries the caller of the listing receives
Listed ==
    IF last.op = "get_files" THEN last.out.value ELSE last.response.body

ListedNames == {Listed[i]["filename"] : i \in DOMAIN Listed}

Matching(b, p) == {k \in b : StartsWith(k, p)}

\* the keys of the first page of a listing of b under p
FirstPage(b, p) ==
    {k \in Matching(b, p) :
        Cardinality({x \in Matching(b, p) : LexLess(x, k)}) < MaxKeys}

RECURSIVE UrlUnquote(_)
UrlUnquote(s) ==
    IF s = <<>> THEN <<>>
    ELSE IF Head(s) = "%" /\ Len(s) >= 3 /\ s[2] = "2" /\ s[3] = "0"
    THEN <<" ">> \o UrlUnquote(SubSeq(s, 4, Len(s)))
    ELSE <<Head(s)>> \o UrlUnquote(Tail(s))

\* url is a signed URL of the object k of the configured bucket
UrlOfKey(url, k) ==
    \E q \in 5..Len(url) :
        /\ url[q] = "?"
        /\ \A j \in 1..(q - 1) : url[j] # "?"
        /\ url[1] = Endpoint /\ url[2] = "/"
        /\ url[3] = bucket_name /\ url[4] = "/"
        /\ UrlUnquote(SubSeq(url, 5, q - 1)) = k
        /\ url[Len(url)] = "X-Amz-Signature"

------------------------------------------------------------------------------
(* The claims.  A claim about what an operation returns is a claim about the
   calls in which no SDK call fails; C5 is the claim about the others. *)

\* C1: once a key has been deleted successfully and not uploaded since, no
\* listing that returns, under any prefix, has an entry with that filename.
C1_DeletedNotListed ==
    ListingReturned => \A k \in deleted : k \notin ListedNames

\* a listing with entries, under a prefix that a deleted key starts with
C1_Witness ==
    /\ ListingReturned
    /\ Listed # <<>>
    /\ \E k \in deleted : StartsWith(k, ListedPrefix)

\* C2: a listing never returns an entry whose filename is a key that is not
\* in the bucket when the listing is made.
C2_ListedArePresent ==
    ListingReturned => ListedNames \subseteq last.before

\* a listing with entries while a key of its prefix is not in the bucket
C2_Witness ==
    /\ ListingReturned
    /\ Listed # <<>>
    /\ \E k \in Keys \ last.before : StartsWith(k, ListedPrefix)

\* C3 as stated: every key in the bucket that starts with the prefix has an
\* entry in the listing, with its own filename and a URL signed for it.
C3_EveryKeyHasEntry ==
    ListingReturned =>
        \A k \in Matching(last.before, ListedPrefix) :
            \E i \in DOMAIN Listed :
                Listed[i]["filename"] = k /\ UrlOfKey(Listed[i]["url"], k)

\* C3 as amended: every key of the first page of the provider's listing has
\* such an entry, and every entry's URL is a URL signed for the entry's own
\* filename.
C3_FirstPageHasEntry ==
    ListingReturned =>
        /\ \A k \in FirstPage(last.before, ListedPrefix) :
              \E i \in DOMAIN Listed :
                  Listed[i]["filename"] = k /\ UrlOfKey(Listed[i]["url"], k)
        /\ \A i \in DOMAIN Listed :
              UrlOfKey(Listed[i]["url"], Listed[i]["filename"])

\* a listing of two entries, one of a key that the URL must escape
C3_Witness ==
    /\ ListingReturned
    /\ Len(Listed) = 2
    /\ userpath \o <<"a", " ", "b">> \in ListedNames

Listing == last.op \in {"get_files", "GET /get-images"}

Deleting == last.op \in {"delete_file", "GET /delete-image"}

Signing == last.op \in {"generate_presigned_post_fields", "GET /"}

\* the step was a call of the adapter, directly or through a route
Calling == last.op \notin {"init", "upload"}

\* the filename a delete was asked for: None when the request has none
AskedFilename == Get(last.args, "filename")

\* the keys of the SDK calls of method m that the last step issued
CallsOf(m) == {i \in DOMAIN last.out.calls : last.out.calls[i]["method"] = m}

\* C4: GET /delete-image without a filename answers with a 4xx status, makes
\* no delete call to the provider, and leaves the bucket as it was.
C4_MissingFilenameRejected ==
    (last.op = "GET /delete-image" /\ "filename" \notin DOMAIN last.args) =>
        /\ last.response.status \in 400..499
        /\ CallsOf("delete_object") = {}
        /\ bucket = last.before

\* C5: a failure of an SDK call ends the operation there: the failing call
\* is the last call issued, no value is returned, the error is the SDK's own,
\* and a route answers with the failure (a 500 without a body); a fault that
\* is set for call n and did not end the operation was never reached.
C5_FailurePropagates ==
    Calling =>
        LET out == last.out
            invalid == /\ last.op \in {"delete_file", "GET /delete-image",
                                       "generate_presigned_url"}
                       /\ ~ValidKey(IF Deleting THEN AskedFilename
                                    ELSE Str(last.args["filename"]))
        IN  /\ invalid => out.raised /\ out.error = "ParamValidationError"
            /\ (~invalid /\ last.fault.at >= 1) =>
                   \/ /\ out.raised
                      /\ Len(out.calls) = last.fault.at
                      /\ out.error = last.fault.error
                   \/ /\ ~out.raised
                      /\ Len(out.calls) < last.fault.at
            /\ (~invalid /\ last.fault.at = 0) => ~out.raised
            /\ out.raised =>
                   /\ "value" \notin DOMAIN out
                   /\ out.bucket = last.before
                   /\ "response" \in DOMAIN last =>
                          last.response = [status |-> 500]

\* a listing whose second SDK call failed while a third was still to come
C5_Witness ==
    /\ last.op = "GET /get-images"
    /\ last.out.raised
    /\ last.fault.at = 2
    /\ Cardinality(Matching(last.before, userpath)) >= 2

C7_KeyTemplate ==
    (Signing /\ ~last.out.raised) =>
        LET P == IF last.op = "GET /" THEN userpath
                 ELSE last.args["path_prefix"]
            policy == last.out.value
        IN  /\ policy["url"] # <<>>
            /\ DOMAIN policy["fields"] # {}
            /\ policy["fields"]["key"] = P \o Placeholder
            /\ last.op = "GET /" =>
                   /\ last.response.status = 200
                   /\ StartsWith(last.response.body["form"]["inputs"]["key"],
                                 userpath)
                   /\ last.response.body["form"]["action"] = policy["url"]

\* a policy made for a content type and a prefix that is not empty
C7_Witness ==
    /\ last.op = "generate_presigned_post_fields"
    /\ ~last.out.raised
    /\ last.args["content_type"] = Str("image/jpg")
    /\ last.args["path_prefix"] = userpath
    /\ "Content-Type" \in DOMAIN last.out.value["fields"]

\* C8: when no key of the bucket starts with the prefix, a listing whose
\* list call does not fail returns the empty sequence, and no presigned URL
\* is generated.
C8_NoMatchEmpty ==
    (Listing /\ Matching(last.before, ListedPrefix) = {}) =>
        /\ CallsOf("generate_presigned_url") = {}
        /\ last.fault.at # 1 => ~last.out.raised /\ Listed = <<>>

\* a listing of a bucket that has objects, none of them under the prefix
C8_Witness ==
    /\ ListingReturned
    /\ last.before # {}
    /\ Matching(last.before, ListedPrefix) = {}
    /\ Listed = <<>>

\* C9: a listing issues one list call, the first of its calls; the entries
\* it returns are the keys of the first page, one entry each, in the
\* provider's order; the keys beyond the page limit are not among them.
C9_SinglePage ==
    Listing =>
        /\ CallsOf("list_objects") = {1}
        /\ ~last.out.raised =>
              LET matching == Matching(last.before, ListedPrefix)
              IN  /\ Len(Listed) =
                        (IF Cardinality(matching) > MaxKeys THEN MaxKeys
                         ELSE Cardinality(matching))
                  /\ ListedNames = FirstPage(last.before, ListedPrefix)
                  /\ \A i, j \in DOMAIN Listed :
                        i < j => LexLess(Listed[i]["filename"],
                                         Listed[j]["filename"])
                  /\ Len(last.out.calls) = 1 + Len(Listed)
                  /\ \A i \in DOMAIN Listed :
                        last.out.calls[i + 1]["Key"] = Listed[i]["filename"]

\* a listing cut at the page limit
C9_Witness ==
    /\ ListingReturned
    /\ Cardinality(Matching(last.before, ListedPrefix)) > MaxKeys
    /\ Len(Listed) = MaxKeys
    /\ Matching(last.before, ListedPrefix) \ ListedNames # {}

\* C10: the adapter's configuration never changes; a call or request that
\* is not a delete leaves the bucket as it was; a delete removes at most the
\* key it was asked for; nothing but an upload adds a key.
C10_Frame ==
    /\ bucket_name = settings["bucket_name"]
    /\ (Calling /\ ~Deleting) => bucket = last.before
    /\ Deleting =>
          /\ bucket \subseteq last.before
          /\ last.before \ bucket \subseteq
                (IF ValidKey(AskedFilename) THEN {AskedFilename.value} ELSE {})
          /\ last.out.raised => bucket = last.before

\* a delete request that removed its key from among others
C10_Witness ==
    /\ last.op = "GET /delete-image"
    /\ ~last.out.raised
    /\ AskedFilename.value \in last.before
    /\ bucket = last.before \ {AskedFilename.value}
    /\ Cardinality(bucket) >= 2

====
